---- MODULE Spec2Model ----
(***************************************************************************)
(* Model of AutoML_PRS: the partitioned row ensemble, the min-max scaler   *)
(* and the fit/preprocess protocol of the PRS estimators.                  *)
(*   src/automl_prs/linear_estimators.py                                   *)
(*   src/automl_prs/lgbm_estimators.py                                     *)
(***************************************************************************)
EXTENDS Integers, Sequences, FiniteSets, TLC

(* ------------------------------ bounds --------------------------------- *)
\* largest number of rows of a dataset handed to PartitionedEnsembleRows.fit
MaxEnsRows == 3
\* largest n_partitions an ensemble is constructed with
MaxPartitions == 3
\* number of fit calls made on one ensemble instance
MaxEnsFits == 2
\* largest number of rows of a table handed to an estimator
MaxRows == 2

VARIABLES
    \* PartitionedEnsembleRows
    n_partitions,   \* self.n_partitions
    models,         \* self.models: the fitted members
    indices,        \* the permutation drawn by the last fit call
    ensCall,        \* outcome of the last fit call on the ensemble
    nEnsFits,       \* number of fit calls made so far
    \* one estimator instance
    variant,        \* its class
    task,           \* self._task
    scale,          \* the scale argument the instance was constructed with
    scaler,         \* self.scaler: "None" or "CustomMinMaxScaler"
    scaler_fit,     \* self.scaler_fit
    min_vals,       \* self.scaler.min_vals (<<>> is None)
    max_vals,       \* self.scaler.max_vals (<<>> is None)
    filter_threshold, \* self.filter_threshold / self.params['filter_threshold']
    var_sets_map,   \* self.var_sets_map
    covar_cols,     \* self.covar_cols
    _model,         \* self._model
    fit_kwargs,     \* the var_sets_map / covar_cols the caller passes to _fit
    lastX,          \* the table given to the call in progress or last made
    lastOut,        \* what _preprocess returned in that call
    lastCall,       \* the call last made, how it ended and what it returned
    pc,             \* position of the tree-based _fit in progress
    frame           \* locals of the tree-based _fit in progress

ensVars == <<n_partitions, models, indices, ensCall, nEnsFits>>

scalerVars == <<scaler, scaler_fit, min_vals, max_vals>>

estVars == <<variant, task, scale, scaler, scaler_fit, min_vals, max_vals,
             filter_threshold, var_sets_map, covar_cols, _model, fit_kwargs,
             lastX, lastOut, lastCall, pc, frame>>

vars == <<ensVars, estVars>>

(* ------------------------------ helpers -------------------------------- *)
Min2(a, b) == IF a <= b THEN a ELSE b

Abs(a) == IF a < 0 THEN -a ELSE a

Range(s) == {s[k] : k \in 1..Len(s)}

RECURSIVE GCD(_, _)
GCD(a, b) == IF b = 0 THEN a ELSE GCD(b, a % b)

\* Python's seq[start:end] for 0 <= start, 0 <= end (rows are numbered from 0)
PySlice(s, start, end) == SubSeq(s, start + 1, Min2(end, Len(s)))

\* seq[mask] for a boolean mask of the length of seq
RECURSIVE MaskSeq(_, _)
MaskSeq(s, mask) ==
    IF s = <<>> THEN <<>>
    ELSE IF Head(mask) THEN <<Head(s)>> \o MaskSeq(Tail(s), Tail(mask))
         ELSE MaskSeq(Tail(s), Tail(mask))

\* ~mask
NotMask(mask) == [k \in 1..Len(mask) |-> ~mask[k]]

(* ================= PartitionedEnsembleRows (linear_estimators.py) ======= *)
\* np.arange(len(y)): the rows (or labels) of a dataset, named by position
Arange(N) == [k \in 1..N |-> k - 1]

\* np.random.shuffle(indices): the orders it can leave np.arange(N) in
Shuffles(N) == {[k \in 1..N |-> p[k - 1]] : p \in Permutations(0..(N - 1))}

\* the kinds of X and y given to fit: a pandas frame with a pandas series,
\* a polars frame or a numpy array with a numpy array
EnsKinds == {<<"pandas", "pandas">>, <<"polars", "numpy">>, <<"numpy", "numpy">>}

\* subset_data(data, start, end) with axis = 0
SubsetData(kind, data, start, end) ==
    IF kind = "pandas" THEN PySlice(data, start, end)
    ELSE IF kind = "polars"
         THEN SubSeq(data, start + 1, Min2(start + (end - start), Len(data)))
         ELSE PySlice(data, start, end)

\* partition_size = len(y) // self.n_partitions
PartitionSize(N, n) == N \div n

StartIdx(i, N, n) == i * PartitionSize(N, n)

\* EndIdx without the remainder given to the last partition
EndIdxNoRemainder(i, N, n) == (i + 1) * PartitionSize(N, n)

EndIdx(i, N, n) ==
    IF i # n - 1 THEN (i + 1) * PartitionSize(N, n) ELSE N

\* the member trained in iteration i of the loop of fit
FitMember(xkind, ykind, X, y, i, n) ==
    [X |-> SubsetData(xkind, X, StartIdx(i, Len(y), n), EndIdx(i, Len(y), n)),
     y |-> SubsetData(ykind, y, StartIdx(i, Len(y), n), EndIdx(i, Len(y), n))]

\* model.fit(X_subset, y_subset) raises: the learner rejects an empty block,
\* or fails for a reason of its own (failAt names the iteration)
MemberFitRaises(member, i, failAt) == Len(member.X) = 0 \/ i = failAt

\* the loop of fit from iteration i on: the members appended, and whether
\* the loop ran to its end
RECURSIVE FitLoop(_, _, _, _, _, _, _, _)
FitLoop(xkind, ykind, X, y, i, n, failAt, acc) ==
    IF i >= n THEN [members |-> acc, completed |-> TRUE]
    ELSE LET m == FitMember(xkind, ykind, X, y, i, n)
         IN  IF MemberFitRaises(m, i, failAt)
             THEN [members |-> acc, completed |-> FALSE]
             ELSE FitLoop(xkind, ykind, X, y, i + 1, n, failAt, Append(acc, m))

EnsInit ==
    /\ n_partitions \in 1..MaxPartitions
    /\ models = <<>>
    /\ indices = <<>>
    /\ ensCall = [status |-> "none", N |-> 0, before |-> 0]
    /\ nEnsFits = 0

\* PartitionedEnsembleRows.fit(X, y) on N rows; perm is the outcome of
\* np.random.shuffle, failAt the iteration whose member fit raises (n: none)
EnsembleFit(xkind, ykind, N, perm, failAt) ==
    LET r == FitLoop(xkind, ykind, Arange(N), Arange(N), 0, n_partitions,
                     failAt, <<>>)
    IN  /\ nEnsFits < MaxEnsFits
        /\ nEnsFits' = nEnsFits + 1
        /\ indices' = perm
        /\ models' = models \o r.members
        /\ ensCall' = [status |-> IF r.completed THEN "completed" ELSE "raised",
                       N |-> N, before |-> Len(models)]
        /\ UNCHANGED n_partitions

EnsFitCompletes ==
    \E N \in 1..MaxEnsRows :
        \E perm \in Shuffles(N) :
            \E kinds \in EnsKinds :
                /\ FitLoop(kinds[1], kinds[2], Arange(N), Arange(N), 0,
                           n_partitions, n_partitions, <<>>).completed
                /\ EnsembleFit(kinds[1], kinds[2], N, perm, n_partitions)

EnsFitRaises ==
    \E N \in 1..MaxEnsRows :
        \E perm \in Shuffles(N) :
            \E kinds \in EnsKinds, failAt \in 0..(n_partitions - 1) :
                EnsembleFit(kinds[1], kinds[2], N, perm, failAt)

(* ===================== tables (pandas / polars) ======================== *)
Backends == {"pandas", "polars"}

\* the columns of every table the caller supplies, in the table's order
DataCols == <<"v1", "c1">>

\* covar_cols as the caller supplies it
CovarCols == <<"c1">>

\* var_sets_map as the caller supplies it: threshold key -> variant columns
VarSetsMapA == [t \in {"t1", "t2"} |-> IF t = "t1" THEN <<"v1">> ELSE <<>>]

VarSetsMapB == [t \in {"t2"} |-> <<"v1">>]

ThresholdKeys == {"t1", "t2"}

\* a table: its backend, its column names and its rows (a row holds one
\* cell per column)
Table(kind, columns, data) == [kind |-> kind, columns |-> columns, data |-> data]

\* the values a cell of a table of measurements takes
CellValues == {0, 1, 2}

\* the tables of 1..MaxRows rows over DataCols with cells in CellValues
ValueTables ==
    {Table(kind, DataCols, data) :
        kind \in Backends,
        data \in UNION {[1..n -> [1..Len(DataCols) -> CellValues]] : n \in 1..MaxRows}}

\* the tables of one row
RowTables == {X \in ValueTables : Len(X.data) = 1}

\* the table of N rows in which every cell has a value of its own
\* (row r, column j holds r * |DataCols| + j, counted from 0)
IdTable(kind, N) ==
    Table(kind, DataCols,
          [r \in 1..N |-> [j \in 1..Len(DataCols) |->
                              (r - 1) * Len(DataCols) + (j - 1)]])

IdTables == {IdTable(kind, N) : kind \in Backends, N \in 1..MaxRows}

\* the labels of a table of N rows: row r (from 0) has label r
Labels(N) == [r \in 1..N |-> r - 1]

\* X.columns.index(column)
ColIndex(columns, column) == CHOOSE j \in 1..Len(columns) : columns[j] = column

\* X[cols]: the columns named by cols, in the order of cols
SelectColumns(X, cols) ==
    Table(X.kind, cols,
          [r \in 1..Len(X.data) |->
              [j \in 1..Len(cols) |-> X.data[r][ColIndex(X.columns, cols[j])]]])

\* X.filter(mask) / X[mask]: the rows whose mask entry is True
FilterRows(X, mask) == Table(X.kind, X.columns, MaskSeq(X.data, mask))

(* ===================== CustomMinMaxScaler ============================== *)
\* a scaled cell is a rational <<numerator, denominator>> in lowest terms;
\* IEEE division by zero gives NaN (<<0, 0>>), inf (<<1, 0>>), -inf (<<-1, 0>>)
NaN == <<0, 0>>

Frac(n, d) ==
    IF d = 0 THEN <<(IF n > 0 THEN 1 ELSE IF n < 0 THEN -1 ELSE 0), 0>>
    ELSE LET g == GCD(Abs(n), Abs(d))
             s == IF d < 0 THEN -1 ELSE 1
         IN  <<(s * n) \div g, (s * d) \div g>>

IsFinite(q) == q[2] # 0

\* X.min(axis=0) / X.min().to_numpy()[0]: the minimum of every column
ColumnMin(X) ==
    [j \in 1..Len(X.columns) |->
        CHOOSE m \in {X.data[r][j] : r \in 1..Len(X.data)} :
            \A r \in 1..Len(X.data) : m <= X.data[r][j]]

ColumnMax(X) ==
    [j \in 1..Len(X.columns) |->
        CHOOSE m \in {X.data[r][j] : r \in 1..Len(X.data)} :
            \A r \in 1..Len(X.data) : m >= X.data[r][j]]

\* CustomMinMaxScaler.fit(X): the (min_vals, max_vals) it stores
ScalerFit(X) == [min_vals |-> ColumnMin(X), max_vals |-> ColumnMax(X)]

\* the pandas branch of transform: (X - min_vals) / (max_vals - min_vals)
PandasScale(x, mn, mx) == Frac(x - mn, mx - mn)

\* the polars branch of transform
PolarsScale(x, mn, mx) ==
    LET range_val == mx - mn
    IN  IF range_val = 0 THEN <<x - mn, 1>> ELSE Frac(x - mn, range_val)

\* CustomMinMaxScaler.transform(X) with the stored mins and maxs
ScalerTransform(mins, maxs, X) ==
    Table(X.kind, X.columns,
          [r \in 1..Len(X.data) |->
              [j \in 1..Len(X.columns) |->
                  IF X.kind = "pandas"
                  THEN PandasScale(X.data[r][j], mins[j], maxs[j])
                  ELSE PolarsScale(X.data[r][j], mins[j], maxs[j])]])

(* ===================== the estimators ================================== *)
SCALE_BY_DEFAULT == TRUE

TreeVariants == {"LGBMEstimatorPRS", "LGBMEstimatorMultiThreshPRS"}

LinearVariants ==
    {"ElasticNetEstimatorPRS", "ElasticNetEstimatorMultiThreshPRS",
     "NPartElasticNetEstimatorPRS", "NPartElasticNetEstimatorMultiThreshPRS",
     "SGDRegressorPRS", "SGDRegressorMultiThreshPRS"}

MultiThreshVariants ==
    {"LGBMEstimatorMultiThreshPRS", "ElasticNetEstimatorMultiThreshPRS",
     "NPartElasticNetEstimatorMultiThreshPRS", "SGDRegressorMultiThreshPRS"}

Tasks == {"regression", "classification", "rank"}

\* an attribute holding a Python value: never assigned, None, or a value
Unset == [tag |-> "unset", v |-> <<>>]

None == [tag |-> "None", v |-> <<>>]

Val(v) == [tag |-> "value", v |-> v]

\* self.scaler and self.scaler_fit as the `if scale:` block of a constructor
\* leaves them
ScalerFields(s) ==
    IF s THEN [scaler |-> "CustomMinMaxScaler", scaler_fit |-> FALSE]
    ELSE [scaler |-> "None", scaler_fit |-> TRUE]

\* the scaler fields of a new instance of class v constructed with scale = s
InitScaler(v, s) ==
    IF v \in TreeVariants THEN [scaler |-> "None", scaler_fit |-> TRUE]
    ELSE IF v = "ElasticNetEstimatorMultiThreshPRS"
         THEN ScalerFields(SCALE_BY_DEFAULT)
         ELSE ScalerFields(s)

\* self.var_sets_map (and self.covar_cols) of a new instance of class v
InitVarSetsMap(v) ==
    IF v \in {"LGBMEstimatorMultiThreshPRS", "ElasticNetEstimatorMultiThreshPRS"}
    THEN None ELSE Unset

\* self.estimator_class
EstimatorClass(v, t) ==
    IF v \in TreeVariants
    THEN (IF t = "classification" THEN "LGBMClassifier" ELSE "LGBMRegressor")
    ELSE IF v \in {"ElasticNetEstimatorPRS", "ElasticNetEstimatorMultiThreshPRS"}
         THEN "ElasticNet"
         ELSE IF v \in {"NPartElasticNetEstimatorPRS",
                        "NPartElasticNetEstimatorMultiThreshPRS"}
              THEN "PartitionedEnsembleRows"
              ELSE "SGDRegressor"

NoTable == Table("none", <<>>, <<>>)

NoModel == [cls |-> "None", n_train |-> 0]

\* ScaleStep when the scaler is fitted anew in every call
ScaleStepRefit(X, sc, sfit, mins, maxs) ==
    IF sc # "None"
    THEN LET f == ScalerFit(X)
         IN  [X |-> ScalerTransform(f.min_vals, f.max_vals, X),
              scaler_fit |-> TRUE,
              min_vals |-> f.min_vals, max_vals |-> f.max_vals]
    ELSE [X |-> X, scaler_fit |-> sfit, min_vals |-> mins, max_vals |-> maxs]

\* the scaling step shared by the _preprocess of every linear variant:
\* the table returned and the scaler state left
ScaleStep(X, sc, sfit, mins, maxs) ==
    IF sc # "None" /\ ~sfit
    THEN LET f == ScalerFit(X)
         IN  [X |-> ScalerTransform(f.min_vals, f.max_vals, X),
              scaler_fit |-> TRUE,
              min_vals |-> f.min_vals, max_vals |-> f.max_vals]
    ELSE IF sc # "None" /\ sfit
         THEN [X |-> ScalerTransform(mins, maxs, X), scaler_fit |-> sfit,
               min_vals |-> mins, max_vals |-> maxs]
         ELSE [X |-> X, scaler_fit |-> sfit,
               min_vals |-> mins, max_vals |-> maxs]

\* var_subset = self.var_sets_map[key]; X = X[self.covar_cols + var_subset]:
\* the exception the lookup raises ("none": it does not raise)
SubsetRaises(vsm, key) ==
    IF vsm.tag = "unset" THEN "AttributeError"
    ELSE IF vsm.tag = "None" THEN "TypeError"
         ELSE IF key \notin DOMAIN vsm.v THEN "KeyError" ELSE "none"

\* SubsetColumns with the variant columns put before the covariates
SubsetColumnsVariantsFirst(X, vsm, cc, key) ==
    SelectColumns(X, vsm.v[key] \o cc.v)

SubsetColumns(X, vsm, cc, key) == SelectColumns(X, cc.v \o vsm.v[key])

\* self._preprocess(X) of class v on an instance in the given state: the
\* exception raised ("none": it returns), the table returned and the scaler
\* state left
Preprocess(v, X, vsm, cc, key, sc, sfit, mins, maxs) ==
    LET unchanged == [raised |-> "none", X |-> X, scaler_fit |-> sfit,
                      min_vals |-> mins, max_vals |-> maxs]
    IN  IF v = "LGBMEstimatorPRS" THEN unchanged
        ELSE IF v \in MultiThreshVariants /\ SubsetRaises(vsm, key) # "none"
             THEN [unchanged EXCEPT !.raised = SubsetRaises(vsm, key),
                                    !.X = NoTable]
             ELSE LET Xs == IF v \in MultiThreshVariants
                            THEN SubsetColumns(X, vsm, cc, key) ELSE X
                  IN  IF v \in TreeVariants THEN [unchanged EXCEPT !.X = Xs]
                      ELSE LET s == ScaleStep(Xs, sc, sfit, mins, maxs)
                           IN  [raised |-> "none", X |-> s.X,
                                scaler_fit |-> s.scaler_fit,
                                min_vals |-> s.min_vals,
                                max_vals |-> s.max_vals]

\* the fit keywords the tuning engine passes to every _fit of the instance
FitKwargs ==
    {[var_sets_map |-> m, covar_cols |-> CovarCols] : m \in {VarSetsMapA, VarSetsMapB}}

\* keyword arguments: a function from the keywords present to their values
NoKwargs == [k \in {} |-> <<>>]

\* the learner's fit has not been called in this _fit
NoLearnerCall ==
    [X |-> NoTable, y |-> <<>>, eval_X |-> NoTable, eval_y |-> <<>>,
     kwargs |-> NoKwargs]

\* no tree-based _fit was called yet
NoFrame ==
    [t |-> 0, X_train |-> NoTable, y_train |-> <<>>, X_val |-> NoTable,
     y_val |-> <<>>, val_mask |-> <<>>, kwargs_in |-> NoKwargs,
     kwargs |-> NoKwargs, model |-> NoModel, model_at_entry |-> NoModel,
     learner_calls |-> 0, learner_call |-> NoLearnerCall]

\* the state after construction of an estimator of class v
EstInit ==
    \E v \in TreeVariants \cup LinearVariants, s \in BOOLEAN, t \in Tasks,
       key \in ThresholdKeys, kw \in FitKwargs :
        /\ v \in LinearVariants => t = "regression"
        /\ v \in TreeVariants => s = SCALE_BY_DEFAULT
        /\ v \notin MultiThreshVariants => (key = "t1" /\ kw.var_sets_map = VarSetsMapA)
        /\ variant = v
        /\ task = t
        /\ scale = s
        /\ scaler = InitScaler(v, s).scaler
        /\ scaler_fit = InitScaler(v, s).scaler_fit
        /\ min_vals = <<>>
        /\ max_vals = <<>>
        /\ filter_threshold = key
        /\ var_sets_map = InitVarSetsMap(v)
        /\ covar_cols = InitVarSetsMap(v)
        /\ _model = NoModel
        /\ fit_kwargs = kw
        /\ lastX = NoTable
        /\ lastOut = NoTable
        /\ lastCall = [op |-> "none", raised |-> "none", ret |-> None]
        /\ pc = "idle"
        /\ frame = NoFrame

\* the state a call of self._preprocess(X) that ended as p leaves
DoPreprocess(X, p) ==
    /\ lastX' = X
    /\ lastOut' = p.X
    /\ scaler_fit' = p.scaler_fit
    /\ min_vals' = p.min_vals
    /\ max_vals' = p.max_vals
    /\ UNCHANGED scaler

\* the framework calls self._preprocess(X) (as predict does)
PreprocessCall(X) ==
    \E p \in {Preprocess(variant, X, var_sets_map, covar_cols,
                         filter_threshold, scaler, scaler_fit, min_vals, max_vals)} :
        /\ pc \in {"idle", "Fitted", "Failed"}
        /\ DoPreprocess(X, p)
        /\ lastCall' = [op |-> "_preprocess", raised |-> p.raised, ret |-> None]
        /\ UNCHANGED <<variant, task, scale, filter_threshold, var_sets_map,
                       covar_cols, _model, fit_kwargs, pc, frame>>

\* what super()._fit returns to the _fit of a linear variant: train_time,
\* the seconds from its entry to the end of the learner's fit (one for
\* preprocessing, one for the learner)
SuperFitReturns == Val(1 + 1)

\* what the _fit of a linear variant returns to its caller: its body ends
\* with the call super()._fit(...), not with a return of that call's value
LinearFitReturns(super_ret) == None

\* _fit of a linear variant: (the threshold variants store var_sets_map and
\* covar_cols, then) super()._fit preprocesses X_train, constructs and fits
\* the learner and installs it. learnerRaises: the learner's fit raises.
LinearFit(X, learnerRaises) ==
    LET vsm == IF variant \in MultiThreshVariants
               THEN Val(fit_kwargs.var_sets_map) ELSE var_sets_map
        cc  == IF variant \in MultiThreshVariants
               THEN Val(fit_kwargs.covar_cols) ELSE covar_cols
    IN  \E p \in {Preprocess(variant, X, vsm, cc, filter_threshold,
                             scaler, scaler_fit, min_vals, max_vals)} :
            /\ pc = "idle"
            /\ variant \in LinearVariants
            /\ var_sets_map' = vsm
            /\ covar_cols' = cc
            /\ DoPreprocess(X, p)
            /\ IF p.raised # "none"
               THEN /\ lastCall' = [op |-> "_fit", raised |-> p.raised, ret |-> None]
                    /\ UNCHANGED _model
               ELSE IF learnerRaises
                    THEN /\ lastCall' = [op |-> "_fit", raised |-> "LearnerError",
                                         ret |-> None]
                         /\ UNCHANGED _model
                    ELSE /\ lastCall' = [op |-> "_fit", raised |-> "none",
                                         ret |-> LinearFitReturns(SuperFitReturns)]
                         /\ _model' = [cls |-> EstimatorClass(variant, task),
                                       n_train |-> Len(p.X.data)]
            /\ UNCHANGED <<variant, task, scale, filter_threshold, fit_kwargs, pc, frame>>

(* ============ _fit of the tree-based estimators (lgbm_estimators.py) ==== *)
PopKey(kw, key) == [k \in (DOMAIN kw) \ {key} |-> kw[k]]

SetKey(kw, key, value) ==
    [k \in (DOMAIN kw) \cup {key} |-> IF k = key THEN value ELSE kw[k]]

GroupIds == {"g1", "g2"}

\* the groups keyword of a table of N rows: one group id per row
GroupVectors(N) == [1..N -> GroupIds]

\* the values of s in the order of their first appearance
RECURSIVE FirstAppearances(_, _)
FirstAppearances(s, seen) ==
    IF s = <<>> THEN <<>>
    ELSE IF Head(s) \in seen THEN FirstAppearances(Tail(s), seen)
         ELSE <<Head(s)>> \o FirstAppearances(Tail(s), seen \cup {Head(s)})

\* flaml's group_counts(groups): the number of rows of every group, the
\* groups in the order of their first appearance
GroupCounts(groups) ==
    LET u == FirstAppearances(groups, {})
    IN  [i \in 1..Len(u) |-> Cardinality({k \in 1..Len(groups) : groups[k] = u[i]})]

\* HandleGroups without the test of the task: any task gets group counts
HandleGroupsAnyTask(kw, t) ==
    IF "groups" \in DOMAIN kw
    THEN SetKey(PopKey(kw, "groups"), "group", GroupCounts(kw["groups"]))
    ELSE kw

\* the keywords after the `if "groups" in kwargs:` block
HandleGroups(kw, t) ==
    IF "groups" \in DOMAIN kw
    THEN IF t = "rank"
         THEN SetKey(PopKey(kw, "groups"), "group", GroupCounts(kw["groups"]))
         ELSE PopKey(kw, "groups")
    ELSE kw

\* the keywords after the early stopping callback is added
AddCallback(kw) ==
    IF "callbacks" \in DOMAIN kw
    THEN SetKey(kw, "callbacks", Append(kw["callbacks"], "early_stopping"))
    ELSE SetKey(kw, "callbacks", <<"early_stopping">>)

\* the pipeline is between two calls
Quiescent == pc \in {"idle", "Fitted", "Failed"}

\* entry of _fit(X_train, y_train, [var_sets_map, covar_cols,] **kwargs):
\* current_time is taken, the groups keyword is handled and the threshold
\* variant stores var_sets_map and covar_cols
TreeFitCall(X, kwargs) ==
    /\ Quiescent
    /\ variant \in TreeVariants
    /\ pc' = "Created"
    /\ frame' = [t |-> 0,
                 X_train |-> X, y_train |-> Labels(Len(X.data)),
                 X_val |-> NoTable, y_val |-> <<>>,
                 val_mask |-> <<>>,
                 kwargs_in |-> kwargs,
                 kwargs |-> HandleGroups(kwargs, task),
                 model |-> NoModel,
                 model_at_entry |-> _model,
                 learner_calls |-> 0,
                 learner_call |-> NoLearnerCall]
    /\ IF variant \in MultiThreshVariants
       THEN /\ var_sets_map' = Val(fit_kwargs.var_sets_map)
            /\ covar_cols' = Val(fit_kwargs.covar_cols)
       ELSE UNCHANGED <<var_sets_map, covar_cols>>
    /\ lastX' = X
    /\ lastOut' = NoTable
    /\ lastCall' = [op |-> "_fit", raised |-> "running", ret |-> None]
    /\ UNCHANGED <<variant, task, scale, scalerVars, filter_threshold, _model, fit_kwargs>>

\* X_train = self._preprocess(X_train)
TreeSelectFeatures ==
    \E p \in {Preprocess(variant, frame.X_train, var_sets_map, covar_cols,
                         filter_threshold, scaler, scaler_fit, min_vals, max_vals)} :
        /\ pc = "Created"
        /\ IF p.raised # "none"
           THEN /\ pc' = "Failed"
                /\ lastCall' = [lastCall EXCEPT !.raised = p.raised]
                /\ frame' = [frame EXCEPT !.t = @ + 1]
                /\ UNCHANGED lastOut
           ELSE /\ pc' = "FeaturesSelected"
                /\ frame' = [frame EXCEPT !.t = @ + 1, !.X_train = p.X]
                /\ lastOut' = p.X
                /\ UNCHANGED lastCall
        /\ UNCHANGED <<variant, task, scale, scalerVars, filter_threshold, var_sets_map,
                       covar_cols, _model, fit_kwargs, lastX>>

\* the mask read from its end
ReverseMask(mask) == [k \in 1..Len(mask) |-> mask[Len(mask) + 1 - k]]

\* TreeSplit when the labels are selected with another mask than the rows
TreeSplitOtherLabelMask(val_mask) ==
    /\ pc = "FeaturesSelected"
    /\ Len(val_mask) = Len(frame.X_train.data)
    /\ pc' = "Split"
    /\ frame' = [frame EXCEPT
                    !.t = @ + 1,
                    !.val_mask = val_mask,
                    !.X_val = FilterRows(frame.X_train, val_mask),
                    !.X_train = FilterRows(frame.X_train, NotMask(val_mask)),
                    !.y_val = MaskSeq(frame.y_train, ReverseMask(val_mask)),
                    !.y_train = MaskSeq(frame.y_train,
                                        NotMask(ReverseMask(val_mask)))]
    /\ UNCHANGED <<variant, task, scale, scalerVars, filter_threshold, var_sets_map,
                   covar_cols, _model, fit_kwargs, lastX, lastOut, lastCall>>

\* val_mask = np.random.choice([True, False], n_samples, p=...) and the four
\* selections made with it
TreeSplit(val_mask) ==
    /\ pc = "FeaturesSelected"
    /\ Len(val_mask) = Len(frame.X_train.data)
    /\ pc' = "Split"
    /\ frame' = [frame EXCEPT
                    !.t = @ + 1,
                    !.val_mask = val_mask,
                    !.X_val = FilterRows(frame.X_train, val_mask),
                    !.X_train = FilterRows(frame.X_train, NotMask(val_mask)),
                    !.y_val = MaskSeq(frame.y_train, val_mask),
                    !.y_train = MaskSeq(frame.y_train, NotMask(val_mask))]
    /\ UNCHANGED <<variant, task, scale, scalerVars, filter_threshold, var_sets_map,
                   covar_cols, _model, fit_kwargs, lastX, lastOut, lastCall>>

\* model = self.estimator_class(**params) and the early stopping callback
TreeConstructModel ==
    /\ pc = "Split"
    /\ pc' = "ModelConstructed"
    /\ frame' = [frame EXCEPT
                    !.t = @ + 1,
                    !.model = [cls |-> EstimatorClass(variant, task),
                               n_train |-> 0],
                    !.kwargs = AddCallback(frame.kwargs)]
    /\ UNCHANGED <<variant, task, scale, scalerVars, filter_threshold, var_sets_map,
                   covar_cols, _model, fit_kwargs, lastX, lastOut, lastCall>>

\* TreeStartFit when the model is installed before the learner's fit is called
TreeStartFitInstallsModel ==
    /\ pc = "ModelConstructed"
    /\ pc' = "Fitting"
    /\ frame' = [frame EXCEPT
                    !.learner_calls = @ + 1,
                    !.learner_call = [X |-> frame.X_train, y |-> frame.y_train,
                                      eval_X |-> frame.X_val, eval_y |-> frame.y_val,
                                      kwargs |-> frame.kwargs]]
    /\ _model' = [frame.model EXCEPT !.n_train = Len(frame.X_train.data)]
    /\ UNCHANGED <<variant, task, scale, scalerVars, filter_threshold, var_sets_map,
                   covar_cols, fit_kwargs, lastX, lastOut, lastCall>>

\* model.fit(X_train, y_train, eval_set=[(X_val, y_val)], **kwargs) is called
TreeStartFit ==
    /\ pc = "ModelConstructed"
    /\ pc' = "Fitting"
    /\ frame' = [frame EXCEPT
                    !.learner_calls = @ + 1,
                    !.learner_call = [X |-> frame.X_train, y |-> frame.y_train,
                                      eval_X |-> frame.X_val, eval_y |-> frame.y_val,
                                      kwargs |-> frame.kwargs]]
    /\ UNCHANGED <<variant, task, scale, scalerVars, filter_threshold, var_sets_map,
                   covar_cols, _model, fit_kwargs, lastX, lastOut, lastCall>>

\* the learner's fit returns: train_time is taken, the model is installed
\* and train_time is returned
TreeLearnerReturns ==
    /\ pc = "Fitting"
    /\ Len(frame.X_train.data) > 0
    /\ Len(frame.X_val.data) > 0
    /\ pc' = "Fitted"
    /\ frame' = [frame EXCEPT !.t = @ + 1]
    /\ _model' = [frame.model EXCEPT !.n_train = Len(frame.X_train.data)]
    /\ lastCall' = [lastCall EXCEPT !.raised = "none", !.ret = Val(frame.t + 1)]
    /\ UNCHANGED <<variant, task, scale, scalerVars, filter_threshold, var_sets_map,
                   covar_cols, fit_kwargs, lastX, lastOut>>

\* the learner's fit raises (as it does when a side of the split is empty):
\* the exception leaves _fit
TreeLearnerRaises ==
    /\ pc = "Fitting"
    /\ pc' = "Failed"
    /\ frame' = [frame EXCEPT !.t = @ + 1]
    /\ lastCall' = [lastCall EXCEPT !.raised = "LearnerError"]
    /\ UNCHANGED <<variant, task, scale, scalerVars, filter_threshold, var_sets_map,
                   covar_cols, _model, fit_kwargs, lastX, lastOut>>

\* the keyword arguments a caller gives _fit for a table of N rows
TreeKwargs(N) ==
    {NoKwargs} \cup {[k \in {"groups"} |-> g] : g \in GroupVectors(N)}

\* the masks np.random.choice can draw for N rows
Masks(N) == [1..N -> BOOLEAN]

(* ===================== specifications ================================== *)
\* the estimator is not used while the ensemble is exercised
EstIdle ==
    /\ variant = "ElasticNetEstimatorPRS" /\ task = "regression" /\ scale = FALSE
    /\ scaler = "None" /\ scaler_fit = TRUE /\ min_vals = <<>> /\ max_vals = <<>>
    /\ filter_threshold = "t1" /\ var_sets_map = Unset /\ covar_cols = Unset
    /\ _model = NoModel /\ fit_kwargs = CHOOSE kw \in FitKwargs : TRUE
    /\ lastX = NoTable /\ lastOut = NoTable
    /\ lastCall = [op |-> "none", raised |-> "none", ret |-> None]
    /\ pc = "idle" /\ frame = NoFrame

\* the ensemble is not used while the estimator is exercised
EnsIdle ==
    /\ n_partitions = 1 /\ models = <<>> /\ indices = <<>>
    /\ ensCall = [status |-> "none", N |-> 0, before |-> 0]
    /\ nEnsFits = 0

EnsNext ==
    \/ EnsFitCompletes /\ UNCHANGED estVars
    \/ EnsFitRaises /\ UNCHANGED estVars

EnsembleInit == EnsInit /\ EstIdle

SpecEnsemble == EnsembleInit /\ [][EnsNext]_vars

Init == EstInit /\ EnsIdle

Next ==
    \/ (\E X \in IdTables : PreprocessCall(X)) /\ UNCHANGED ensVars
    \/ (\E X \in IdTables, learnerRaises \in BOOLEAN : LinearFit(X, learnerRaises))
          /\ UNCHANGED ensVars
    \/ (\E X \in IdTables : \E kwargs \in TreeKwargs(Len(X.data)) :
            TreeFitCall(X, kwargs)) /\ UNCHANGED ensVars
    \/ TreeSelectFeatures /\ UNCHANGED ensVars
    \/ (\E val_mask \in Masks(Len(frame.X_train.data)) : TreeSplit(val_mask))
          /\ UNCHANGED ensVars
    \/ TreeConstructModel /\ UNCHANGED ensVars
    \/ TreeStartFit /\ UNCHANGED ensVars
    \/ TreeLearnerReturns /\ UNCHANGED ensVars
    \/ TreeLearnerRaises /\ UNCHANGED ensVars

Spec == Init /\ [][Next]_vars

\* the scaler exercised through the linear estimators over every small
\* table of measurements: any table in the first
\* call on the instance, a table of one row afterwards (transform works
\* cell by cell); the learner's own failure, which comes after _preprocess,
\* is left to Spec
ScalerInit == Init /\ variant \in LinearVariants

ScalerTables == IF lastCall.op = "none" THEN ValueTables ELSE RowTables

ScalerNext ==
    \/ (\E X \in ScalerTables : PreprocessCall(X)) /\ UNCHANGED ensVars
    \/ (\E X \in ScalerTables : LinearFit(X, FALSE)) /\ UNCHANGED ensVars

SpecScaler == ScalerInit /\ [][ScalerNext]_vars

(* ------------------- claims about the ensemble ------------------------- *)
\* the members appended by the last fit call, in the order of their append
NewMembers == SubSeq(models, ensCall.before + 1, Len(models))

\* C1: after every completed fit call the model list holds exactly
\* n_partitions fitted members, one per partition (whatever fit calls came
\* before on the same instance).
C1_ExactlyNMembers ==
    ensCall.status = "completed" => Len(models) = n_partitions

\* the size the claim gives partition i of N rows split n ways
ClaimedSize(i, N, n) ==
    IF i < n - 1 THEN N \div n ELSE N - (n - 1) * (N \div n)

\* C2: a completed fit of N rows with 1 <= n_partitions <= N trains
\* partition i on floor(N/n) rows and the last one on the remainder; the row
\* ranges are pairwise disjoint, cover all N rows, and each member's labels
\* are those of the rows of its features.
C2_PartitionSizes ==
    (ensCall.status = "completed" /\ n_partitions <= ensCall.N) =>
        /\ Len(NewMembers) = n_partitions
        /\ \A i \in 0..(n_partitions - 1) :
              /\ Len(NewMembers[i + 1].X) = ClaimedSize(i, ensCall.N, n_partitions)
              /\ Cardinality(Range(NewMembers[i + 1].X)) = Len(NewMembers[i + 1].X)
              /\ NewMembers[i + 1].y = NewMembers[i + 1].X
        /\ \A i, j \in 0..(n_partitions - 1) :
              i # j => Range(NewMembers[i + 1].X) \cap Range(NewMembers[j + 1].X) = {}
        /\ UNION {Range(NewMembers[i + 1].X) : i \in 0..(n_partitions - 1)}
              = 0..(ensCall.N - 1)

\* a completed fit whose last partition absorbs a remainder
C2_Witness ==
    /\ ensCall.status = "completed"
    /\ n_partitions >= 2
    /\ ensCall.N % n_partitions # 0
    /\ Len(NewMembers) = n_partitions

\* C9: the rows member i is trained on are those whose indices occupy
\* positions [i*floor(N/n), end_i) of the permutation drawn at the start of
\* fit, not the rows at those positions of the original order.
C9_PermutedBlocks ==
    ensCall.status = "completed" =>
        \A i \in 0..(n_partitions - 1) :
            ensCall.before + i + 1 <= Len(models) =>
                models[ensCall.before + i + 1].X =
                    PySlice(indices, StartIdx(i, ensCall.N, n_partitions),
                            EndIdx(i, ensCall.N, n_partitions))

(* ------------------- claims about the scaler --------------------------- *)
\* the table the scaler is given when _preprocess is given X: X itself, or
\* its threshold columns in a threshold variant
ScalerInput(X, vsm, cc) ==
    IF variant \in MultiThreshVariants
    THEN SelectColumns(X, cc.v \o vsm.v[filter_threshold])
    ELSE X

\* the last call ran the scaler and lastOut is what it returned
Scaled ==
    /\ variant \in LinearVariants
    /\ scaler # "None"
    /\ lastCall.op # "none"
    /\ lastOut # NoTable

\* C3: transform returns (x - min) / (max - min) for every feature whose
\* max differs from min and x - min for every feature whose max equals min,
\* never NaN or inf, for the pandas and the polars backend alike.
C3_TransformNoDivisionByZero ==
    Scaled =>
        LET in == ScalerInput(lastX, var_sets_map, covar_cols)
        IN  \A r \in 1..Len(lastOut.data), j \in 1..Len(lastOut.columns) :
                /\ IsFinite(lastOut.data[r][j])
                /\ IF max_vals[j] # min_vals[j]
                   THEN lastOut.data[r][j][1] * (max_vals[j] - min_vals[j])
                            = (in.data[r][j] - min_vals[j]) * lastOut.data[r][j][2]
                   ELSE lastOut.data[r][j] = <<in.data[r][j] - min_vals[j], 1>>

\* m is the least (greatest) cell of column j of table X
IsColumnMin(X, j, m) ==
    /\ \E r \in 1..Len(X.data) : X.data[r][j] = m
    /\ \A r \in 1..Len(X.data) : m <= X.data[r][j]

IsColumnMax(X, j, m) ==
    /\ \E r \in 1..Len(X.data) : X.data[r][j] = m
    /\ \A r \in 1..Len(X.data) : m >= X.data[r][j]

\* what C4 says of one step of an estimator that has a scaler: a call in
\* which the scaler is not reached leaves its state alone; the first call
\* that reaches it learns the column minima and maxima of its table; every
\* later call leaves them alone; and every call transforms with them
ScalerStepLearnsOnce ==
    (variant \in LinearVariants /\ scaler # "None") =>
        IF lastOut' = NoTable
        THEN UNCHANGED <<scaler_fit, min_vals, max_vals>>
        ELSE LET in == ScalerInput(lastX', var_sets_map', covar_cols')
             IN  /\ (~scaler_fit) =>
                       /\ scaler_fit'
                       /\ \A j \in 1..Len(in.columns) :
                             /\ IsColumnMin(in, j, min_vals'[j])
                             /\ IsColumnMax(in, j, max_vals'[j])
                 /\ scaler_fit =>
                       /\ scaler_fit'
                       /\ min_vals' = min_vals
                       /\ max_vals' = max_vals
                 /\ lastOut' = ScalerTransform(min_vals', max_vals', in)

\* C4: with scaling enabled, min and max are learned from the first table
\* passed through _preprocess and never recomputed: every later _preprocess,
\* in fit or predict, leaves them alone and transforms with them.
C4_ScalerLearnedOnce == [][ScalerStepLearnsOnce]_vars

\* a later table, whose own minimum or maximum differs from the one
\* learned, has been transformed
C4_Witness ==
    /\ Scaled
    /\ scaler_fit
    /\ LET in == ScalerInput(lastX, var_sets_map, covar_cols)
       IN  \E j \in 1..Len(in.columns) :
              ~IsColumnMin(in, j, min_vals[j]) \/ ~IsColumnMax(in, j, max_vals[j])

(* ------------------- claims about the estimators ----------------------- *)
\* the _preprocess of the last call (or of the _fit in progress) has run
PreprocessRan ==
    /\ lastCall.op # "none"
    /\ pc # "Created"
    /\ lastX # NoTable

\* C5: for every threshold variant and every key of var_sets_map,
\* _preprocess restricts the table to the columns covar_cols followed by
\* var_sets_map[key], in that order; for a key that is not in var_sets_map
\* it raises a lookup error and returns no table.
C5_SubsetColumns ==
    (variant \in MultiThreshVariants /\ PreprocessRan /\ var_sets_map.tag = "value") =>
        IF filter_threshold \in DOMAIN var_sets_map.v
        THEN /\ lastCall.raised # "KeyError"
             /\ lastOut.columns = covar_cols.v \o var_sets_map.v[filter_threshold]
             /\ Len(lastOut.data) = Len(lastX.data)
             /\ scaler = "None" =>
                   \A r \in 1..Len(lastOut.data), j \in 1..Len(lastOut.columns) :
                       \E i \in 1..Len(lastX.columns) :
                           /\ lastX.columns[i] = lastOut.columns[j]
                           /\ lastOut.data[r][j] = lastX.data[r][i]
        ELSE /\ lastCall.raised = "KeyError"
             /\ lastOut = NoTable

\* a threshold variant returned the covariate followed by a variant column,
\* which is not the order of the columns of the table it was given
C5_Witness ==
    /\ variant \in MultiThreshVariants
    /\ PreprocessRan
    /\ lastOut.columns = <<"c1", "v1">>
    /\ lastX.columns = <<"v1", "c1">>

\* the validation split of the tree-based _fit in progress (or last run)
\* has been made
SplitDone ==
    /\ variant \in TreeVariants
    /\ lastCall.op = "_fit"
    /\ frame.val_mask # <<>>

\* C6: for every mask drawn, training rows and validation rows are disjoint
\* and together are all the rows, and row k is among the validation rows
\* exactly when label k is among the validation labels.
C6_SplitPartitionsRows ==
    SplitDone =>
        LET N == Len(lastOut.data)
        IN  /\ Len(frame.X_val.data) = Len(frame.y_val)
            /\ Len(frame.X_train.data) = Len(frame.y_train)
            /\ Len(frame.y_val) + Len(frame.y_train) = N
            /\ Range(frame.y_val) \cap Range(frame.y_train) = {}
            /\ Range(frame.y_val) \cup Range(frame.y_train) = 0..(N - 1)
            /\ \A i \in 1..Len(frame.y_val) :
                  frame.X_val.data[i] = lastOut.data[frame.y_val[i] + 1]
            /\ \A i \in 1..Len(frame.y_train) :
                  frame.X_train.data[i] = lastOut.data[frame.y_train[i] + 1]
            /\ Range(frame.X_val.data) \cap Range(frame.X_train.data) = {}

\* a fit went through with rows on both sides of the split
C6_Witness ==
    /\ SplitDone
    /\ pc = "Fitted"
    /\ Len(frame.y_val) > 0
    /\ Len(frame.y_train) > 0
    /\ Len(frame.y_val) + Len(frame.y_train) = MaxRows

\* the learner's fit has been called in the _fit in progress (or last run)
\* and _fit was given the groups keyword
LearnerCalledWithGroups ==
    /\ variant \in TreeVariants
    /\ frame.learner_calls > 0
    /\ "groups" \in DOMAIN frame.kwargs_in

\* counts are the row counts of the groups of g, the groups taken in the
\* order in which they first appear in g
IsGroupCounts(counts, g) ==
    /\ Len(counts) = Cardinality(Range(g))
    /\ \A id \in Range(g) :
          LET first == CHOOSE k \in 1..Len(g) :
                          g[k] = id /\ \A l \in 1..(k - 1) : g[l] # id
              rank  == Cardinality({g[l] : l \in 1..first})
          IN  counts[rank] = Cardinality({k \in 1..Len(g) : g[k] = id})

\* C7 as stated: for a ranking task the groups reach the learner's fit as
\* per-group row counts; for every other task the groups value is passed
\* through to the learner's fit unmodified.
C7_GroupsPassedThrough ==
    LearnerCalledWithGroups =>
        IF task = "rank"
        THEN /\ "group" \in DOMAIN frame.learner_call.kwargs
             /\ IsGroupCounts(frame.learner_call.kwargs["group"],
                              frame.kwargs_in["groups"])
        ELSE /\ "groups" \in DOMAIN frame.learner_call.kwargs
             /\ frame.learner_call.kwargs["groups"] = frame.kwargs_in["groups"]

\* C7 as amended: for a ranking task the groups reach the learner's fit as
\* per-group row counts under the keyword group; for every other task the
\* groups keyword is removed and the learner's fit is given neither groups
\* nor group.
C7_GroupsConvertedOrDropped ==
    LearnerCalledWithGroups =>
        /\ "groups" \notin DOMAIN frame.learner_call.kwargs
        /\ IF task = "rank"
           THEN /\ "group" \in DOMAIN frame.learner_call.kwargs
                /\ IsGroupCounts(frame.learner_call.kwargs["group"],
                                 frame.kwargs_in["groups"])
           ELSE "group" \notin DOMAIN frame.learner_call.kwargs

\* a ranking fit was given rows of two groups and called the learner
C7_Witness ==
    /\ LearnerCalledWithGroups
    /\ task = "rank"
    /\ Cardinality(Range(frame.kwargs_in["groups"])) = 2

\* C8: whatever the variant, a _fit call that completes returns the
\* training time in seconds to its caller.
C8_FitReturnsTrainTime ==
    (lastCall.op = "_fit" /\ lastCall.raised = "none") =>
        /\ lastCall.ret.tag = "value"
        /\ lastCall.ret.v > 0

\* the steps of a tree-based _fit, in their order
TreeOrder ==
    {<<"idle", "Created">>, <<"Fitted", "Created">>, <<"Failed", "Created">>,
     <<"Created", "FeaturesSelected">>, <<"Created", "Failed">>,
     <<"FeaturesSelected", "Split">>, <<"Split", "ModelConstructed">>,
     <<"ModelConstructed", "Fitting">>, <<"Fitting", "Fitted">>,
     <<"Fitting", "Failed">>}

\* what C10 says of one step of an estimator
TreeStepInOrder ==
    variant \in TreeVariants =>
        /\ pc' # pc => <<pc, pc'>> \in TreeOrder
        /\ _model' # _model => (pc = "Fitting" /\ pc' = "Fitted")
        /\ frame'.learner_calls <= 1
        /\ pc' = "Fitting" => frame'.learner_calls = 1
        /\ (pc' = "Failed" /\ pc = "Created") => frame'.learner_calls = 0
        /\ pc' \in {"Created", "FeaturesSelected", "Split", "ModelConstructed",
                    "Fitting", "Failed"} => _model' = frame'.model_at_entry

\* C10: a tree-based _fit goes through feature subsetting, validation
\* split, model construction and learner fit in this order and only then
\* installs the model; when the feature lookup or the learner's fit raises,
\* the call ends there, the learner's fit is not called again and _model is
\* what it was before the call.
C10_OrderAndFailure == [][TreeStepInOrder]_vars

\* the learner's fit raised in a _fit on an estimator that had a fitted model
C10_Witness ==
    /\ variant \in TreeVariants
    /\ pc = "Failed"
    /\ frame.learner_calls = 1
    /\ _model # NoModel
    /\ _model = frame.model_at_entry


(* ------------------- claims about the scale argument ------------------- *)
\* C11: every linear estimator variant constructed with scale=False has
\* scaler None, so every _preprocess, in fit or predict, returns its table
\* (the threshold columns of it in a threshold variant) with no min-max
\* scaling applied.
C11_ScaleFalseNoScaler ==
    (variant \in LinearVariants /\ ~scale) =>
        /\ scaler = "None"
        /\ lastOut # NoTable =>
              lastOut = ScalerInput(lastX, var_sets_map, covar_cols)
====
